---------------------------- MODULE Spec2Model ----------------------------
(***************************************************************************)
(* Policy / Oracle-agreement validation of the ZK Health infrastructure:  *)
(* the benchmark fall-back simulations (src/cli/benchmark_policy.py,      *)
(* src/cli/benchmark_oracle.py, src/cli/benchmark_gateway.py) and the     *)
(* front-end handlers that consume policy decisions                       *)
(* (src/frontend/app/policies/router.py,                                  *)
(*  src/frontend/app/treatments/router.py).                               *)
(*                                                                         *)
(* A Python dict is a TLA+ record (a function on strings).  A draw of      *)
(* random.random() is a parameter chosen with \E by the calling action:    *)
(* both outcomes of every comparison against a threshold are possible.     *)
(* uuid-valued identifiers and timestamps take no part in any decision     *)
(* and are left out of the records.                                        *)
(***************************************************************************)
EXTENDS Integers, Sequences, FiniteSets, TLC

VARIABLES
    op,     \* the benchmark or handler whose iteration is running ("start": none)
    req,    \* the request it built (None before it is built)
    api,    \* what the HTTP APIs answered to it (status "none": not called)
    res     \* the value the called function returned (None until it returns)

vars == <<op, req, api, res>>

\* ------------------------------------------------------------------ bounds
\* longest clause-id list of an oracle request or an event
MaxClauses == 2

\* ------------------------------------------------------------ python dicts
\* Python's None
None == [none |-> TRUE]

\* d.get(k, default)
Get(d, k, default) == IF k \in DOMAIN d THEN d[k] ELSE default

\* the elements of a list
Range(s) == {s[i] : i \in DOMAIN s}

\* the lists without repetition over S, of length lo..hi
Lists(S, lo, hi) ==
    {s \in UNION {[1..n -> S] : n \in lo..hi} :
        \A i, j \in DOMAIN s : i # j => s[i] # s[j]}

\* [x for x in s if keep[i]] for the i-th element draw keep[i]
RECURSIVE Filter(_, _)
Filter(s, keep) ==
    IF s = <<>> THEN <<>>
    ELSE LET rest == Filter(Tail(s), Tail(keep))
         IN  IF Head(keep) THEN <<Head(s)>> \o rest ELSE rest

\* --------------------------------------------------------- benchmark inputs
\* benchmark_policy_validation: roles, actions, locations
PolicyRoles == {"general_doctor", "specialist", "nurse", "admin", "researcher"}
PolicyActions ==
    {"prescribe", "diagnose", "refer", "issue_certificate", "record_vitals",
     "access_anonymized_data"}
PolicyLocations == {"IN", "CA", "US", "GB"}
\* generate_policy_request: resource_types
ResourceTypes == {"medical_record", "prescription", "lab_result", "consent_form"}

\* generate_policy_request(role, action, location, cross_jurisdiction=None)
generate_policy_request(role, action, location, resource_type, cross_jurisdiction) ==
    LET request == [actor_role |-> role, action |-> action, location |-> location,
                    resource_type |-> resource_type]
    IN  IF cross_jurisdiction # None
        THEN request @@ [cross_jurisdiction |-> cross_jurisdiction]
        ELSE request

\* ------------------------------------------------------- policy validation
\* str.lower() on a location code
lower(location) ==
    CASE location = "IN" -> "in"
      [] location = "CA" -> "ca"
      [] location = "US" -> "us"
      [] location = "GB" -> "gb"
      [] OTHER -> location

\* The fallback without its rule for nurses: "elif role == 'nurse'" dropped
policy_fallback_without_nurse_rule(request) ==
    LET role   == request.actor_role
        action == request.action
        denied ==
            IF role = "general_doctor" \/ role = "specialist"
            THEN action \notin {"prescribe", "diagnose", "refer", "issue_certificate"}
            ELSE IF role = "researcher"
            THEN action # "access_anonymized_data"
            ELSE FALSE
        reason ==
            IF ~denied THEN "Policy validation passed"
            ELSE IF role = "general_doctor" \/ role = "specialist"
            THEN "Action " \o action \o " not allowed for " \o role
            ELSE "Researchers can only access anonymized data"
    IN  [allowed |-> ~denied,
         reason |-> reason,
         validator_id |-> "validator_" \o lower(request.location),
         validator_name |-> request.location \o " Health Authority"]

\* simulate_policy_validation_fallback(request)
simulate_policy_validation_fallback(request) ==
    LET role   == request.actor_role
        action == request.action
        denied ==
            IF role = "general_doctor" \/ role = "specialist"
            THEN action \notin {"prescribe", "diagnose", "refer", "issue_certificate"}
            ELSE IF role = "nurse"
            THEN action \in {"prescribe", "diagnose"}
            ELSE IF role = "researcher"
            THEN action # "access_anonymized_data"
            ELSE FALSE
        reason ==
            IF ~denied THEN "Policy validation passed"
            ELSE IF role = "general_doctor" \/ role = "specialist"
            THEN "Action " \o action \o " not allowed for " \o role
            ELSE IF role = "nurse"
            THEN "Action " \o action \o " not allowed for nurse"
            ELSE "Researchers can only access anonymized data"
    IN  [allowed |-> ~denied,
         reason |-> reason,
         validator_id |-> "validator_" \o lower(request.location),
         validator_name |-> request.location \o " Health Authority"]

\* What the Go API answers is not decided by this code: the call_* wrappers
\* are given one of these statuses and, on 200, one of these JSON bodies.
ApiOutcomes == {"200", "error_status", "exception"}
BackendBodies ==
    {[allowed |-> TRUE, reason |-> "ok"],
     [allowed |-> FALSE, reason |-> "denied"],
     [message |-> "no decision"]}

\* call_policy_validation(request)
call_policy_validation(request, status, result) ==
    IF status = "200"
    THEN [allowed |-> Get(result, "allowed", FALSE),
          reason |-> Get(result, "reason", ""),
          validator_id |-> Get(result, "validator_id", ""),
          validator_name |-> Get(result, "validator_name", "")]
    ELSE simulate_policy_validation_fallback(request)

\* ----------------------------------------------- cross-jurisdiction (policy)
\* benchmark_cross_jurisdiction: scenarios
CrossScenarios ==
    {[source |-> "IN", target |-> "US", role |-> "specialist", action |-> "diagnose"],
     [source |-> "CA", target |-> "GB", role |-> "general_doctor", action |-> "refer"],
     [source |-> "US", target |-> "CA", role |-> "specialist",
      action |-> "issue_certificate"],
     [source |-> "GB", target |-> "IN", role |-> "researcher",
      action |-> "access_anonymized_data"]}

\* f"agreement_{uuid.uuid4().hex[:8]}": an id minted for the request
AgreementIds == {"agreement_1", "agreement_2"}

\* The fallback with the agreement check assigned to the decision instead of
\* only withdrawing it: result["allowed"] = agreement_valid
cross_fallback_assigns_agreement_valid(request, agreement_valid) ==
    LET result     == simulate_policy_validation_fallback(request)
        cross_info == Get(request, "cross_jurisdiction", << >>)
        source     == Get(cross_info, "source_country",
                          Get(request, "location", "unknown"))
        target     == Get(cross_info, "target_country", "unknown")
        cross      == [source_country |-> source,
                       target_country |-> target,
                       agreement_valid |-> agreement_valid,
                       agreement_id |-> Get(cross_info, "agreement_id", "unknown")]
        withCross  == [cross_jurisdiction |-> cross] @@ result
    IN  [withCross EXCEPT
            !.allowed = agreement_valid,
            !.reason = IF agreement_valid THEN result.reason
                       ELSE "No valid agreement between " \o source
                            \o " and " \o target]

\* The fallback withdrawing the decision without replacing its reason:
\* result["reason"] = ... dropped
cross_fallback_keeps_reason_on_denial(request, agreement_valid) ==
    LET result     == simulate_policy_validation_fallback(request)
        cross_info == Get(request, "cross_jurisdiction", << >>)
        source     == Get(cross_info, "source_country",
                          Get(request, "location", "unknown"))
        target     == Get(cross_info, "target_country", "unknown")
        cross      == [source_country |-> source,
                       target_country |-> target,
                       agreement_valid |-> agreement_valid,
                       agreement_id |-> Get(cross_info, "agreement_id", "unknown")]
        withCross  == [cross_jurisdiction |-> cross] @@ result
    IN  IF ~agreement_valid
        THEN [withCross EXCEPT !.allowed = FALSE]
        ELSE withCross

\* simulate_cross_jurisdiction_validation_fallback(request); agreement_valid is
\* the draw random.random() > 0.1
simulate_cross_jurisdiction_validation_fallback(request, agreement_valid) ==
    LET result     == simulate_policy_validation_fallback(request)
        cross_info == Get(request, "cross_jurisdiction", << >>)
        source     == Get(cross_info, "source_country",
                          Get(request, "location", "unknown"))
        target     == Get(cross_info, "target_country", "unknown")
        cross      == [source_country |-> source,
                       target_country |-> target,
                       agreement_valid |-> agreement_valid,
                       agreement_id |-> Get(cross_info, "agreement_id", "unknown")]
        withCross  == [cross_jurisdiction |-> cross] @@ result
    IN  IF ~agreement_valid
        THEN [withCross EXCEPT
                 !.allowed = FALSE,
                 !.reason = "No valid agreement between " \o source
                            \o " and " \o target]
        ELSE withCross

\* call_cross_jurisdiction_validation(request)
call_cross_jurisdiction_validation(request, status, body, agreement_valid) ==
    IF status = "200" THEN body
    ELSE simulate_cross_jurisdiction_validation_fallback(request, agreement_valid)

\* ------------------------------------------------------ role validation
\* simulate_role_validation_fallback: rbac_matrix
rbac_matrix ==
    [doctor |->
        [medical_record |-> {"read", "write"},
         prescription |-> {"read", "write", "approve"},
         lab_result |-> {"read"},
         imaging |-> {"read", "write"},
         consultation |-> {"read", "write", "approve"}],
     nurse |->
        [medical_record |-> {"read", "write"},
         prescription |-> {"read"},
         lab_result |-> {"read"},
         imaging |-> {"read"},
         consultation |-> {"read", "write"}],
     admin |->
        [medical_record |-> {"read"},
         prescription |-> {"read"},
         lab_result |-> {"read"},
         imaging |-> {"read"},
         consultation |-> {"read"}],
     researcher |->
        [medical_record |-> {"read"},
         lab_result |-> {"read"},
         imaging |-> {"read"}],
     pharmacist |->
        [prescription |-> {"read", "approve"},
         medical_record |-> {"read"}]]

\* benchmark_role_validation: roles, resources, actions; a role and a resource
\* outside the matrix are drawn too
RoleRoles == {"doctor", "nurse", "admin", "researcher", "pharmacist", "visitor"}
RoleResources ==
    {"medical_record", "prescription", "lab_result", "imaging", "consultation"}
RoleActions == {"read", "write", "delete", "approve", "submit"}

\* simulate_role_validation_fallback(request)
simulate_role_validation_fallback(request) ==
    LET role     == request.role
        resource == request.resource
        action   == request.action
        allowed  ==
            /\ role \in DOMAIN rbac_matrix
            /\ resource \in DOMAIN rbac_matrix[role]
            /\ action \in rbac_matrix[role][resource]
    IN  [allowed |-> allowed, role |-> role, resource |-> resource,
         action |-> action]

\* call_role_validation(request)
call_role_validation(request, status, body) ==
    IF status = "200" THEN body
    ELSE simulate_role_validation_fallback(request)

\* --------------------------------------------- RBAC verification (gateway)
\* simulate_rbac_verification_fallback: permissions
permissions ==
    [doctor |-> {"consent:read", "consent:create", "document:read",
                 "document:create", "treatment:*"},
     patient |-> {"consent:read", "consent:create", "consent:delete",
                  "document:read"},
     admin |-> {"identity:*", "consent:read", "document:read", "oracle:read"},
     nurse |-> {"consent:read", "document:read", "treatment:read",
                "treatment:update"},
     researcher |-> {"document:read", "treatment:read"}]

\* benchmark_rbac_verification: roles, resources, actions; a role outside the
\* permissions is drawn too
RbacRoles == {"doctor", "patient", "admin", "nurse", "researcher", "visitor"}
RbacResources == {"identity", "consent", "document", "treatment", "oracle"}
RbacActions == {"create", "read", "update", "delete"}

\* simulate_rbac_verification_fallback(context); random_denial is the draw
\* random.random() < 0.05
simulate_rbac_verification_fallback(context, random_denial) ==
    LET role_perms      == Get(permissions, context.role, {})
        resource_action == context.resource \o ":" \o context.action
        wildcard        == context.resource \o ":*"
        allowed         == resource_action \in role_perms \/ wildcard \in role_perms
    IN  [allowed |-> IF random_denial THEN FALSE ELSE allowed,
         role |-> context.role,
         resource |-> context.resource,
         action |-> context.action]

\* call_rbac_verification(context)
call_rbac_verification(context, status, result, random_denial) ==
    IF status = "200"
    THEN [allowed |-> Get(result, "allowed", FALSE),
          role |-> Get(context, "role", "user"),
          resource |-> Get(context, "resource", "document"),
          action |-> Get(context, "action", "read")]
    ELSE simulate_rbac_verification_fallback(context, random_denial)

\* ------------------------------------------------------ validator selection
\* simulate_validator_selection_fallback: validator_mapping
validator_mapping ==
    [IN |-> [default |-> "mci_validator",
             validator_name |-> "Medical Council of India"],
     CA |-> [default |-> "health_canada",
             validator_name |-> "Health Canada"],
     US |-> [default |-> "us_hhs",
             validator_name |-> "US Department of Health & Human Services"],
     GB |-> [default |-> "nhs_validator",
             validator_name |-> "National Health Service UK"]]

\* simulate_validator_selection_fallback: "validates_for"
validates_for == {"prescribe", "diagnose", "refer", "issue_certificate"}

\* benchmark_validator_selection: the locations of action_location_pairs; a
\* country outside validator_mapping is drawn too
SelectionLocations == {"US", "CA", "IN", "AU"}

\* simulate_validator_selection_fallback(request)
simulate_validator_selection_fallback(request) ==
    LET country            == request.location
        country_validators == Get(validator_mapping, country,
                                  [default |-> "unknown",
                                   validator_name |-> "Unknown"])
    IN  [validator_id |-> country_validators.default,
         validator_name |-> country_validators.validator_name,
         country |-> country,
         validates_for |-> validates_for]

\* call_validator_selection(request)
call_validator_selection(request, status, body) ==
    IF status = "200" THEN body
    ELSE simulate_validator_selection_fallback(request)

\* ------------------------------------------------ policy-oracle integration
\* f"clause_{uuid.uuid4().hex[:6]}": the clause ids minted for a request
ClauseIds == {"clause_a", "clause_b", "clause_c"}

\* The fallback stopping at the first failing clause: the clause ids after it
\* get no verdict
integration_fallback_stops_at_first_failure(oracle_request, passes) ==
    LET policy_result   == simulate_policy_validation_fallback(
                               oracle_request.policy_request)
        clause_ids      == oracle_request.clause_ids
        failing         == {i \in DOMAIN clause_ids : ~passes[i]}
        last            == IF failing = {} THEN Len(clause_ids)
                           ELSE CHOOSE i \in failing : \A j \in failing : i <= j
        evaluated       == SubSeq(clause_ids, 1, last)
        valid_clauses   == Filter(evaluated, SubSeq(passes, 1, last))
        invalid_clauses == IF failing = {} THEN << >> ELSE <<clause_ids[last]>>
    IN  [policy_result |-> policy_result,
         oracle_validated |-> (Len(invalid_clauses) = 0),
         agreement_id |-> oracle_request.agreement_id,
         valid_clauses |-> valid_clauses,
         invalid_clauses |-> invalid_clauses,
         validation_details |->
            [clause_id \in Range(evaluated) |->
                IF clause_id \in Range(valid_clauses)
                THEN "Clause validated successfully"
                ELSE "Clause validation failed"]]

\* simulate_policy_oracle_integration_fallback(oracle_request); passes[i] is
\* the draw random.random() > 0.1 for the i-th clause id
simulate_policy_oracle_integration_fallback(oracle_request, passes) ==
    LET policy_result   == simulate_policy_validation_fallback(
                               oracle_request.policy_request)
        clause_ids      == oracle_request.clause_ids
        valid_clauses   == Filter(clause_ids, passes)
        invalid_clauses == Filter(clause_ids,
                                  [i \in DOMAIN passes |-> ~passes[i]])
    IN  [policy_result |-> policy_result,
         oracle_validated |-> (Len(invalid_clauses) = 0),
         agreement_id |-> oracle_request.agreement_id,
         valid_clauses |-> valid_clauses,
         invalid_clauses |-> invalid_clauses,
         validation_details |->
            [clause_id \in Range(clause_ids) |->
                IF clause_id \in Range(valid_clauses)
                THEN "Clause validated successfully"
                ELSE "Clause validation failed"]]

\* call_policy_oracle_integration(oracle_request)
call_policy_oracle_integration(oracle_request, status, body, passes) ==
    IF status = "200" THEN body
    ELSE simulate_policy_oracle_integration_fallback(oracle_request, passes)

\* ------------------------------------------- oracle chain validator benchmarks
\* benchmark_clause_validation, benchmark_agreement_validation: the contexts
OracleLocations == {"US", "EU", "India", "Canada", "UK"}
OracleContexts ==
    [consent_verified : BOOLEAN, location : OracleLocations, emergency : BOOLEAN]

\* generate_random_clauses: the preconditions of a generated clause
ClausePreconditions ==
    [consent_obtained : BOOLEAN, identity_verified : {TRUE},
     minimum_age : {18, 21}, emergency_override : BOOLEAN]

\* simulate_clause_validation(agreement_id, clause_id, context); passed is the
\* draw random.random() > 0.1
simulate_clause_validation(agreement_id, clause_id, context, passed) ==
    passed

\* simulate_agreement_validation(agreement_id, event); valid is the draw
\* random.random() > 0.15, passes[i] the draw random.random() > 0.1 for the
\* i-th clause id
simulate_agreement_validation(agreement_id, event, valid, passes) ==
    LET clause_ids == Get(event, "clause_ids", << >>)
    IN  [valid |-> valid,
         clause_validations |->
            [clause_id \in Range(clause_ids) |->
                \* a repeated key keeps the value of its last occurrence
                LET last == CHOOSE i \in DOMAIN clause_ids :
                                /\ clause_ids[i] = clause_id
                                /\ \A j \in DOMAIN clause_ids :
                                       clause_ids[j] = clause_id => j <= i
                IN  passes[last]]]

\* the keys of {k: ... for k in keys}, in the order a dict keeps them: each key
\* where it first occurs
RECURSIVE dict_keys(_)
dict_keys(keys) ==
    IF keys = << >> THEN << >>
    ELSE LET front == dict_keys(SubSeq(keys, 1, Len(keys) - 1))
             k     == keys[Len(keys)]
         IN  IF k \in Range(front) THEN front ELSE Append(front, k)

\* The simulation with the data jurisdiction left out of the comprehension
cross_validation_without_data_jurisdiction(agreement_id, scenario, compliant, passes) ==
    LET jurisdictions == <<scenario.doctor_jurisdiction,
                           scenario.patient_jurisdiction>>
    IN  [compliant |-> compliant,
         jurisdiction_results |->
            [jurisdiction \in Range(jurisdictions) |->
                LET last == CHOOSE i \in DOMAIN jurisdictions :
                                /\ jurisdictions[i] = jurisdiction
                                /\ \A j \in DOMAIN jurisdictions :
                                       jurisdictions[j] = jurisdiction => j <= i
                IN  passes[last]]]

\* simulate_cross_jurisdiction_validation(agreement_id, scenario); compliant is
\* the draw random.random() > 0.2, passes[i] the draw random.random() > 0.1
\* for the i-th jurisdiction of the comprehension
simulate_cross_jurisdiction_validation(agreement_id, scenario, compliant, passes) ==
    LET jurisdictions == <<scenario.doctor_jurisdiction,
                           scenario.patient_jurisdiction,
                           scenario.data_jurisdiction>>
    IN  [compliant |-> compliant,
         jurisdiction_results |->
            [jurisdiction \in Range(jurisdictions) |->
                \* a repeated key keeps the value of its last occurrence
                LET last == CHOOSE i \in DOMAIN jurisdictions :
                                /\ jurisdictions[i] = jurisdiction
                                /\ \A j \in DOMAIN jurisdictions :
                                       jurisdictions[j] = jurisdiction => j <= i
                IN  passes[last]]]

\* -------------------------------------------------------- regulatory update
\* benchmark_agreement_creation, benchmark_regulatory_update: jurisdictions
Jurisdictions ==
    {"US-HIPAA", "EU-GDPR", "INDIA-TELEMEDICINE", "CANADA-PRIVACY", "UK-NHS"}
\* benchmark_regulatory_update: update_types
UpdateTypes == {"addition", "modification", "removal"}

\* the agreements benchmark_agreement_creation has created earlier in the run
\* (run_oracle_benchmarks), as id -> jurisdiction: simulate_agreement_creation
\* returns an id for any name, jurisdiction and clauses
CreatedAgreements ==
    UNION {[ids -> Jurisdictions] : ids \in SUBSET AgreementIds}

\* simulate_regulatory_update: random.randint(5, 20)
MinAffected == 5
MaxAffected == 20

\* simulate_regulatory_update(update); num_affected is the draw
\* random.randint(5, 20). uuid4 draws are new each time: after `minted` ids
\* have been minted, the i-th id of this call is written
\* agreement_new_<minted + i>
simulate_regulatory_update(update, num_affected, minted) ==
    [i \in 1..num_affected |-> "agreement_new_" \o ToString(minted + i)]

\* ------------------------------------------------------- front-end API client
\* ZKBaseClient._make_request: the dict a client method returns for an HTTP
\* status and a JSON body ("exception": httpx raised, nothing is returned)
_make_request(status, body) ==
    IF status = "error_status"
    THEN [success |-> FALSE, error |-> "API Error"]
    ELSE body

\* What the policy API answers to /validate/oracle
OracleBodies ==
    {[policy_result |-> [allowed |-> a, reason |-> "policy"],
      oracle_validated |-> v,
      invalid_clauses |-> i] :
        a \in BOOLEAN, v \in BOOLEAN,
        i \in {<< >>, <<"patient_consent_verification">>}}
    \cup {[message |-> "no decision"]}

\* httpx raised inside a client method: the exception leaves the handler
Raised == [exception |-> TRUE]

\* what a client method hands to the handler
ClientResponses(bodies) ==
    {_make_request(status, body) : status \in {"200", "error_status"},
                                    body \in bodies} \cup {Raised}

\* ---------------------------------------------------------- policies router
\* simulate_validation(role, action, country, cross_jurisdiction): the
\* response for what validate_action and validate_policy_with_oracle hand back
simulate_validation(validation_request, policy_response, oracle_response) ==
    IF policy_response = Raised
    THEN [status_code |-> 500, calls |-> <<"validate_action">>]
    ELSE IF Get(policy_response, "allowed", FALSE)
    THEN IF oracle_response = Raised
         THEN [status_code |-> 500,
               calls |-> <<"validate_action", "validate_policy_with_oracle">>]
         ELSE [status_code |-> 200,
               calls |-> <<"validate_action", "validate_policy_with_oracle">>,
               content |-> [policy_validation |-> policy_response,
                            oracle_validation |-> oracle_response]]
    ELSE [status_code |-> 200,
          calls |-> <<"validate_action">>,
          content |-> [policy_validation |-> policy_response,
                       oracle_validation |-> None]]

\* -------------------------------------------------------- treatments router
ConsentBodies == {[valid |-> TRUE], [valid |-> FALSE]}
TreatmentBodies == {[success |-> TRUE], [success |-> FALSE, error |-> "rejected"]}

\* create_treatment, from "# Verify consent exists" on
create_treatment_after_policy(calls, consent_response, create_consent_response, treatment_response) ==
    LET verified == Append(calls, "verify_consent")
    IN  IF consent_response = Raised
        THEN [status_code |-> 500, calls |-> verified]
        ELSE
        LET consented ==
                IF ~Get(consent_response, "valid", FALSE)
                THEN Append(verified, "create_consent")
                ELSE verified
        IN  IF ~Get(consent_response, "valid", FALSE)
               /\ create_consent_response = Raised
            THEN [status_code |-> 500, calls |-> consented]
            ELSE
            LET created == Append(consented, "create_treatment_vector")
            IN  IF treatment_response = Raised
                THEN [status_code |-> 500, calls |-> created]
                ELSE IF ~Get(treatment_response, "success", FALSE)
                THEN [status_code |-> 500, calls |-> created,
                      detail |-> "Failed to create treatment vector"]
                ELSE [status_code |-> 303, calls |-> created]

\* create_treatment(patient_id, ..., current_user): the response for what the
\* policy, consent and treatment clients hand back
create_treatment(policy_response, consent_response, create_consent_response, treatment_response) ==
    LET calls == <<"validate_policy_with_oracle">>
    IN  IF policy_response = Raised
        THEN [status_code |-> 500, calls |-> calls]
        ELSE IF ~Get(Get(policy_response, "policy_result", << >>), "allowed", FALSE)
        THEN [status_code |-> 403, calls |-> calls,
              detail |-> "Policy restriction"]
        ELSE IF ~Get(policy_response, "oracle_validated", FALSE)
        THEN [status_code |-> 403, calls |-> calls,
              detail |-> "Oracle validation failed for clauses",
              invalid_clauses |-> Get(policy_response, "invalid_clauses", << >>)]
        ELSE create_treatment_after_policy(calls, consent_response,
                                           create_consent_response,
                                           treatment_response)

\* ------------------------------------------------------------ oracle router
\* the text of a clause a form carries
ClauseTexts == {"Patient consent is required"}

\* POST /oracle/create: the clauses form field (required, so not empty) is
\* JSON text (value: the list json.loads returns) or free text (value: its
\* lines, some of them blank)
ClauseForms ==
    {[kind |-> "json", value |-> list] :
        list \in UNION {[1..n -> [id : ClauseIds, text : ClauseTexts]] :
                            n \in 0..MaxClauses}}
    \cup {[kind |-> "text", value |-> lines] :
            lines \in UNION {[1..n -> ClauseTexts \cup {""}] :
                                n \in 1..(MaxClauses + 1)}}

\* clauses.strip(): the blank lines before the first and after the last
\* written line go
RECURSIVE strip(_)
strip(lines) ==
    IF lines = << >> THEN << >>
    ELSE IF Head(lines) = "" THEN strip(Tail(lines))
    ELSE IF lines[Len(lines)] = "" THEN strip(SubSeq(lines, 1, Len(lines) - 1))
    ELSE lines

\* str.split("\n") of the text whose lines are `lines`: the empty text gives [""]
split(lines) == IF lines = << >> THEN <<"">> ELSE lines

\* create_agreement: [{"id": f"clause_{i+1}", "text": clause.strip()}
\*                    for i, clause in enumerate(...) if clause.strip()],
\* from the i-th line on (i counts from 1 here)
RECURSIVE clauses_from_lines(_, _)
clauses_from_lines(lines, i) ==
    IF i > Len(lines) THEN << >>
    ELSE (IF lines[i] # ""
          THEN <<[id |-> "clause_" \o ToString(i), text |-> lines[i]]>>
          ELSE << >>)
         \o clauses_from_lines(lines, i + 1)

\* create_agreement: "# Parse clauses"
parse_clauses(clauses) ==
    IF clauses.kind = "json" THEN clauses.value
    ELSE clauses_from_lines(split(strip(clauses.value)), 1)

\* create_agreement(name, ..., country, cross_jurisdiction, clauses,
\* current_user): the response for what validate_action hands back
create_agreement(policy_response, country, clauses) ==
    IF policy_response = Raised
    THEN [status_code |-> 500]
    ELSE IF ~Get(policy_response, "allowed", FALSE)
    THEN [status_code |-> 403,
          detail |-> "Policy restriction: You are not authorized to create oracle agreements"]
    ELSE LET agreement_data == [country |-> country,
                                clauses |-> parse_clauses(clauses),
                                status |-> "Active"]
             oracle_response == [success |-> TRUE,
                                 message |-> "Agreement created successfully"]
         IN  [status_code |-> 303,
              agreement_data |-> agreement_data,
              oracle_response |-> oracle_response]

\* validate_agreement_form(agreement_id, current_user): GET
\* /oracle/validate/{agreement_id}
validate_agreement_form(policy_response, agreement_id, country) ==
    IF policy_response = Raised
    THEN [status_code |-> 500, calls |-> <<"validate_action">>]
    ELSE IF ~Get(policy_response, "allowed", FALSE)
    THEN [status_code |-> 403, calls |-> <<"validate_action">>,
          detail |-> "Policy restriction: You are not authorized to validate this oracle agreement"]
    ELSE [status_code |-> 200, calls |-> <<"validate_action">>,
          agreement |-> [id |-> agreement_id,
                         name |-> "Example Agreement " \o agreement_id,
                         country |-> country]]

\* validate_agreement(agreement_id, action, resource_id, resource_type,
\* current_user): POST /oracle/validate/{agreement_id}; the oracle API call
\* is commented out and a response is put in its place
validate_agreement(validation_data) ==
    LET response ==
            [agreement_id |-> validation_data.agreement_id,
             valid |-> TRUE,
             validated_clauses |-> <<"clause1", "clause2", "clause3">>,
             failed_clauses |-> << >>,
             validation_details |-> [actor_validated |-> TRUE,
                                     action_allowed |-> TRUE,
                                     resource_accessible |-> TRUE]]
    IN  [status_code |-> 200, calls |-> << >>, content |-> response]

\* ------------------------------------------- infrastructure validation (CLI)
\* validate_policies: policy_payload, cross_juris_payload, emergency_payload
PolicyPayloads ==
    {[test_name |-> "Basic Policy Validation",
      requester |-> [role |-> "physician", jurisdiction |-> "california"],
      subject |-> [record_type |-> "medical_history", jurisdiction |-> "california"],
      action |-> "read", purpose |-> "treatment", emergency |-> FALSE],
     [test_name |-> "Cross-Jurisdiction Policy",
      requester |-> [role |-> "physician", jurisdiction |-> "california"],
      subject |-> [record_type |-> "medical_history", jurisdiction |-> "new_york"],
      action |-> "read", purpose |-> "treatment", emergency |-> FALSE],
     [test_name |-> "Emergency Access Policy",
      requester |-> [role |-> "nurse", jurisdiction |-> "texas"],
      subject |-> [record_type |-> "medical_history", jurisdiction |-> "florida"],
      action |-> "read", purpose |-> "emergency", emergency |-> TRUE]}

\* The recording with the failure branch recording a pass
validate_policies_records_pass_on_failure(test_name, status, validation) ==
    IF status = "200"
    THEN [test_name |-> test_name,
          passed |-> Get(validation, "allowed", FALSE),
          details |-> Get(validation, "reason", "Unknown"),
          response |-> validation]
    ELSE [test_name |-> test_name,
          passed |-> TRUE,
          details |-> "Failed to validate policy"]

\* validate_policies: what add_result records for the answer of
\* POLICY_VALIDATE_ENDPOINT ("exception": http_post returned None)
validate_policies_result(test_name, status, validation) ==
    IF status = "200"
    THEN [test_name |-> test_name,
          passed |-> Get(validation, "allowed", FALSE),
          details |-> Get(validation, "reason", "Unknown"),
          response |-> validation]
    ELSE [test_name |-> test_name,
          passed |-> FALSE,
          details |-> "Failed to validate policy"]

\* ---------------------------------------- the policy API behind the endpoint
\* The engine that answers POLICY_VALIDATE_ENDPOINT is the Policy Decision
\* Engine of the design (sections 4.2 to 4.5): its role table, the clauses a
\* request references, the facts it holds about the request and the agreements
\* registered are its own state.

\* the (resource-type, action) pairs the engine's role table grants the
\* requesting role
ApiGrants == SUBSET {"medical_history:read", "medical_history:*"}

\* the facts about the request the engine evaluates preconditions against
ApiFacts ==
    [consent_obtained : BOOLEAN, identity_verified : BOOLEAN, age : {17, 30}]
    \cup [consent_obtained : BOOLEAN]

\* the preconditions of the clauses a request references
ApiClauses ==
    UNION {[1..n -> ClausePreconditions] : n \in 0..MaxClauses}

\* step 1: the role-capability check, with wildcard actions
RbacPass(grants, resource_type, action) ==
    \/ (resource_type \o ":" \o action) \in grants
    \/ (resource_type \o ":*") \in grants

\* DetectCrossJurisdiction(actorLocation, subjectLocation, dataLocation)
DetectCrossJurisdiction(actor, subject, data) ==
    <<actor>>
    \o (IF subject # actor THEN <<subject>> ELSE << >>)
    \o (IF data # actor /\ data # subject THEN <<data>> ELSE << >>)

\* the context attribute a precondition of a generated clause is compared with
ReferencedAttribute(k) ==
    IF k = "minimum_age" THEN "age"
    ELSE IF k = "emergency_override" THEN "emergency"
    ELSE k

\* a precondition k: v holds against the context
PreconditionHolds(k, v, context) ==
    LET a == ReferencedAttribute(k)
    IN  /\ a \in DOMAIN context
        /\ IF k = "minimum_age" THEN context[a] >= v ELSE context[a] = v

\* the clause declares emergency_override and the context is an emergency
EmergencyOverrideApplies(preconditions, context) ==
    /\ preconditions.emergency_override
    /\ Get(context, "emergency", FALSE)

\* the preconditions of a clause other than the override declaration
OrdinaryPreconditions(preconditions) ==
    DOMAIN preconditions \ {"emergency_override"}

\* Evaluate(clause, ctx) -> (valid, notes)
Evaluate(preconditions, ctx) ==
    IF EmergencyOverrideApplies(preconditions, ctx)
    THEN [valid |-> TRUE, notes |-> <<"emergency override applied">>]
    ELSE [valid |-> \A k \in OrdinaryPreconditions(preconditions) :
                        PreconditionHolds(k, preconditions[k], ctx),
          notes |-> << >>]

\* the notes of all clause evaluations, in reference order
RECURSIVE AllNotes(_)
AllNotes(results) ==
    IF results = << >> THEN << >>
    ELSE Head(results).notes \o AllNotes(Tail(results))

\* Validate(ctx) -> Decision, for the role table `grants`, the referenced
\* clauses and whether an agreement is registered for the jurisdiction pair
Validate(ctx, grants, clauses, agreement_registered) ==
    IF ~RbacPass(grants, ctx.resource_type, ctx.action)
    THEN [allowed |-> FALSE,
          reason |-> "action not permitted for role",
          clause_validations |-> << >>,
          notes |-> << >>]
    ELSE
    LET results       == [i \in DOMAIN clauses |-> Evaluate(clauses[i], ctx)]
        failing       == {i \in DOMAIN clauses : ~results[i].valid}
        first         == CHOOSE i \in failing : \A j \in failing : i <= j
        jurisdictions == DetectCrossJurisdiction(ctx.actor_location,
                                                 ctx.subject_location,
                                                 ctx.subject_location)
        decision      == [allowed |-> failing = {},
                          reason |-> IF failing = {} THEN "allowed"
                                     ELSE "clause_" \o ToString(first) \o " failed",
                          clause_validations |->
                              [i \in DOMAIN clauses |-> results[i].valid],
                          notes |-> AllNotes(results)]
    IN  IF Len(jurisdictions) > 1 /\ ~agreement_registered
        THEN [decision EXCEPT
                 !.allowed = FALSE,
                 !.reason = "no valid agreement between " \o jurisdictions[1]
                            \o " and " \o jurisdictions[2]]
        ELSE decision

\* the Context the engine builds from a payload and the facts it holds
PayloadContext(payload, facts) ==
    facts @@ [resource_type |-> payload.subject.record_type,
              action |-> payload.action,
              actor_location |-> payload.requester.jurisdiction,
              subject_location |-> payload.subject.jurisdiction,
              emergency |-> payload.emergency]

\* ---------------------------------------------------------- patients router

\* what the document and consent APIs answer
DocumentBodies == {[success |-> TRUE], [success |-> FALSE, error |-> "rejected"]}
CreateConsentBodies == {[success |-> TRUE], [success |-> FALSE, error |-> "rejected"]}

\* a registration that uploads the identity document before it looks at the
\* policy response
register_patient_uploading_first(policy_response, document_response, consent_response) ==
    LET uploaded == <<"validate_action", "upload_document">>
    IN  IF policy_response = Raised
        THEN [status_code |-> 500, calls |-> <<"validate_action">>]
        ELSE IF document_response = Raised
        THEN [status_code |-> 500, calls |-> uploaded]
        ELSE IF ~Get(policy_response, "allowed", FALSE)
        THEN [status_code |-> 403, calls |-> uploaded,
              detail |-> "Policy restriction: You are not authorized to register new patients"]
        ELSE IF consent_response = Raised
        THEN [status_code |-> 500, calls |-> Append(uploaded, "create_consent")]
        ELSE [status_code |-> 303,
              calls |-> Append(uploaded, "create_consent"),
              patient_data |-> [status |-> "Active"]]

\* register_patient(full_name, ..., id_document, current_user): the response
\* for what the policy, document and consent clients hand back; a failed
\* upload or consent is printed and the handler goes on
register_patient(policy_response, document_response, consent_response) ==
    LET checked  == <<"validate_action">>
        uploaded == Append(checked, "upload_document")
        created  == Append(uploaded, "create_consent")
    IN  IF policy_response = Raised
        THEN [status_code |-> 500, calls |-> checked]
        ELSE IF ~Get(policy_response, "allowed", FALSE)
        THEN [status_code |-> 403, calls |-> checked,
              detail |-> "Policy restriction: You are not authorized to register new patients"]
        ELSE IF document_response = Raised
        THEN [status_code |-> 500, calls |-> uploaded]
        ELSE IF consent_response = Raised
        THEN [status_code |-> 500, calls |-> created]
        ELSE [status_code |-> 303, calls |-> created,
              patient_data |-> [status |-> "Active"]]

\* -------------------------------------------------------- treatments router
\* path values of /treatments/{treatment_id}/update
TreatmentIds == {"TRT1001", "analytics"}

\* update_treatment(treatment_id, ..., current_user): the treatment API call
\* is commented out and a success is put in its place
update_treatment(policy_response, treatment_id) ==
    IF policy_response = Raised
    THEN [status_code |-> 500, calls |-> <<"validate_action">>]
    ELSE IF ~Get(policy_response, "allowed", FALSE)
    THEN [status_code |-> 403, calls |-> <<"validate_action">>,
          detail |-> "Policy restriction: You are not authorized to update this treatment plan"]
    ELSE LET update_data == [id |-> treatment_id]
             treatment_response ==
                 [success |-> TRUE,
                  message |-> "Treatment updated successfully"]
         IN  IF ~Get(treatment_response, "success", FALSE)
             THEN [status_code |-> 500, calls |-> <<"validate_action">>,
                   update_data |-> update_data]
             ELSE [status_code |-> 303, calls |-> <<"validate_action">>,
                   update_data |-> update_data]

\* -------------------------------------------------------------- auth router
\* the passwords a login form carries
Passwords == {"secret", "guess"}

\* get_password_hash(password): pwd_context.hash, written bcrypt(<password>)
get_password_hash(password) == "bcrypt(" \o password \o ")"

\* verify_password(plain_password, hashed_password): pwd_context.verify. A
\* stored value that is no bcrypt hash (the default "" of a user record
\* without password_hash) is not verified: passlib raises UnknownHashError,
\* or answers False, as unidentified_raises says
verify_password(plain_password, hashed_password, unidentified_raises) ==
    IF hashed_password \notin {get_password_hash(p) : p \in Passwords}
    THEN IF unidentified_raises THEN Raised ELSE [verified |-> FALSE]
    ELSE [verified |-> hashed_password = get_password_hash(plain_password)]

\* what the identity API answers to /verify, and the gateway to its token
\* request
IdentityBodies ==
    {[success |-> TRUE,
      data |-> [id |-> "user_1", role |-> "general_doctor", country |-> "IN",
                password_hash |-> get_password_hash("secret")]],
     [success |-> TRUE,
      data |-> [id |-> "user_2", role |-> "nurse", country |-> "IN"]],
     [success |-> FALSE, error |-> "unknown user"],
     [message |-> "no decision"]}
GatewayBodies == {[token |-> "gateway_token_1"], [message |-> "no token"]}

\* a login that answers 200 with a token whenever the identity is verified,
\* whatever the password check says
login_without_password_check(user_response, password, unidentified_raises, gateway_token_response) ==
    LET verified == <<"verify_identity">>
    IN  IF user_response = Raised
        THEN [status_code |-> 500, calls |-> verified]
        ELSE IF ~Get(user_response, "success", FALSE)
        THEN [status_code |-> 401, calls |-> verified,
              detail |-> "Incorrect username or password"]
        ELSE IF gateway_token_response = Raised
        THEN [status_code |-> 500,
              calls |-> <<"verify_identity", "create_access_token",
                          "generate_token">>]
        ELSE [status_code |-> 200,
              calls |-> <<"verify_identity", "create_access_token",
                          "generate_token">>,
              access_token |-> "jwt",
              gateway_token |-> Get(gateway_token_response, "token", ""),
              token_type |-> "bearer"]

\* login_for_access_token(form_data): the response for what the identity and
\* gateway clients hand back
login_for_access_token(user_response, password, unidentified_raises, gateway_token_response) ==
    LET verified == <<"verify_identity">>
    IN  IF user_response = Raised
        THEN [status_code |-> 500, calls |-> verified]
        ELSE IF ~Get(user_response, "success", FALSE)
        THEN [status_code |-> 401, calls |-> verified,
              detail |-> "Incorrect username or password"]
        ELSE
        LET user == Get(user_response, "data", << >>)
            stored_password_hash == Get(user, "password_hash", "")
            password_ok == verify_password(password, stored_password_hash,
                                           unidentified_raises)
            issued == <<"verify_identity", "create_access_token",
                        "generate_token">>
        IN  IF password_ok = Raised
            THEN [status_code |-> 500, calls |-> verified]
            ELSE IF ~password_ok.verified
            THEN [status_code |-> 401, calls |-> verified,
                  detail |-> "Incorrect username or password"]
            ELSE IF gateway_token_response = Raised
            THEN [status_code |-> 500, calls |-> issued]
            ELSE [status_code |-> 200, calls |-> issued,
                  access_token |-> "jwt",
                  gateway_token |-> Get(gateway_token_response, "token", ""),
                  token_type |-> "bearer"]

\* ------------------------------------------------------------------ routing
\* the routes of the oracle and treatments routers in the order their
\* decorators register them; a path is the sequence of its segments
OracleRoutes ==
    <<[method |-> "GET", path |-> << >>, handler |-> "oracle_dashboard"],
      [method |-> "GET", path |-> <<"create">>,
       handler |-> "create_agreement_form"],
      [method |-> "POST", path |-> <<"create">>,
       handler |-> "create_agreement"],
      [method |-> "GET", path |-> <<"{agreement_id}">>,
       handler |-> "agreement_detail"],
      [method |-> "GET", path |-> <<"validate", "{agreement_id}">>,
       handler |-> "validate_agreement_form"],
      [method |-> "POST", path |-> <<"validate", "{agreement_id}">>,
       handler |-> "validate_agreement"],
      [method |-> "GET", path |-> <<"templates">>,
       handler |-> "agreement_templates"]>>
TreatmentRoutes ==
    <<[method |-> "GET", path |-> << >>, handler |-> "treatment_list"],
      [method |-> "GET", path |-> <<"create">>,
       handler |-> "create_treatment_form"],
      [method |-> "POST", path |-> <<"create">>,
       handler |-> "create_treatment"],
      [method |-> "GET", path |-> <<"{treatment_id}">>,
       handler |-> "treatment_detail"],
      [method |-> "GET", path |-> <<"{treatment_id}", "update">>,
       handler |-> "update_treatment_form"],
      [method |-> "POST", path |-> <<"{treatment_id}", "update">>,
       handler |-> "update_treatment"],
      [method |-> "GET", path |-> <<"analytics">>,
       handler |-> "treatment_analytics"]>>
Routers == [oracle |-> OracleRoutes, treatments |-> TreatmentRoutes]

\* a path parameter takes any one segment
PathParameters == {"{agreement_id}", "{treatment_id}"}

\* the route matches the request: same method, and segment by segment the
\* same text or a path parameter
matches(route, method, path) ==
    /\ route.method = method
    /\ Len(route.path) = Len(path)
    /\ \A i \in DOMAIN path :
        route.path[i] \in PathParameters \/ route.path[i] = path[i]

\* the router hands the request to the first route that matches, in
\* registration order
dispatch(routes, method, path) ==
    IF \E i \in DOMAIN routes : matches(routes[i], method, path)
    THEN LET first == CHOOSE i \in DOMAIN routes :
                        /\ matches(routes[i], method, path)
                        /\ \A j \in DOMAIN routes :
                            matches(routes[j], method, path) => i <= j
         IN  [handler |-> routes[first].handler,
              path_params |-> {<<routes[first].path[k], path[k]>> :
                                 k \in {n \in DOMAIN path :
                                          routes[first].path[n]
                                              \in PathParameters}}]
    ELSE [handler |-> "not_found", path_params |-> {}]

\* the segments a requested path is made of
PathSegments ==
    {"create", "templates", "analytics", "validate", "update",
     "agreement_1", "TRT1001"}

\* ------------------------------- infrastructure validation tests (CLI)
\* run_all_tests: tests, in the order they are run
ComponentTests ==
    <<"test_zk_circuit_execution", "test_horizontal_scaling",
      "test_security_features", "test_policy_validation",
      "test_monitoring_resilience", "test_interoperability">>

\* __main__: the choices of --test and the test each single choice runs
TestChoices ==
    [zkcircuit |-> "test_zk_circuit_execution",
     scaling |-> "test_horizontal_scaling",
     security |-> "test_security_features",
     policy |-> "test_policy_validation",
     monitoring |-> "test_monitoring_resilience",
     interop |-> "test_interoperability"]

\* the tests a run goes through for its --test choice
selected_tests(choice) ==
    IF choice = "all" THEN ComponentTests ELSE <<TestChoices[choice]>>

\* a run that goes on to the tests once the health check has run, whatever
\* it returned
goes_on_after_any_health_check(health) == health # "not_run"

\* run_all_tests: `if not test_health_checking(): return`; __main__:
\* `test_health_checking() and test_x()`
goes_on_after_health_check(health) == health = "passed"

\* ------------------------------------------- clause store (spec 4.1, 4.6, 5)
\* the versions one agreement is followed through
MaxVersions == 3

\* ContentHash: a digest over the canonicalized ordered clause list, equal
\* exactly for equal clause content
ContentHash(clauses) == [digest_of |-> clauses]

\* Create: the clause list a new agreement is created with
CreatedClauses == <<[clause_id |-> "clause_1", revision |-> 1, active |-> TRUE]>>

\* ApplyUpdate: the clause content of the next version. addition adds a
\* clause, modification rewrites one, removal marks one inactive and deletes
\* nothing
UpdatedClauses(clauses, update_type) ==
    CASE update_type = "addition" ->
            Append(clauses, [clause_id |-> "clause_"
                                           \o ToString(Len(clauses) + 1),
                             revision |-> 1, active |-> TRUE])
      [] update_type = "modification" ->
            [clauses EXCEPT ![1].revision = @ + 1]
      [] update_type = "removal" ->
            [clauses EXCEPT ![Len(clauses)].active = FALSE]

\* a selection that takes the oldest version whatever its status
select_first_version(versions) ==
    IF versions = <<>> THEN 0 ELSE 1

\* the version new decisions are made against: the Active one, 0 when the
\* agreement has none
SelectVersion(versions) ==
    IF \E v \in DOMAIN versions : versions[v].status = "Active"
    THEN CHOOSE v \in DOMAIN versions : versions[v].status = "Active"
    ELSE 0

\* a write that also overwrites the clauses of the Active version in place
write_clauses_in_place(store, clauses) ==
    [store EXCEPT
        !.draft = [clauses |-> clauses],
        !.versions =
            IF SelectVersion(@) = 0
            THEN @
            ELSE [@ EXCEPT ![SelectVersion(store.versions)].clauses = clauses]]

\* a write starts: the clause content of the new version is written to
\* storage of its own, beside the versions readers see
WriteClauses(store, clauses) ==
    [store EXCEPT !.draft = [clauses |-> clauses]]

\* the write goes on: the hash of the written clauses is added
WriteHash(store) ==
    [store EXCEPT !.draft = [clauses |-> @.clauses,
                             content_hash |-> ContentHash(@.clauses)]]

\* the write ends: the new version is appended as Active, and the version
\* that was Active becomes Superseded and is otherwise kept as it is
Publish(store) ==
    LET versions == store.versions
        superseded ==
            [v \in DOMAIN versions |->
                IF versions[v].status = "Active"
                THEN [versions[v] EXCEPT !.status = "Superseded"]
                ELSE versions[v]]
    IN  [store EXCEPT
            !.versions = Append(superseded,
                                [clauses |-> store.draft.clauses,
                                 content_hash |-> store.draft.content_hash,
                                 status |-> "Active"]),
            !.draft = None]

\* ------------------------------------------------------------------ actions
Init ==
    /\ op = "start"
    /\ req = None
    /\ api = [status |-> "none"]
    /\ res = None

\* the loop head of a benchmark: no iteration is running
Idle == op = "start"

\* an iteration has built its request and not yet called
Called(name) == op = name /\ res = None

\* benchmark_policy_validation: an iteration builds its request
benchmark_policy_validation ==
    /\ Idle
    /\ \E role \in PolicyRoles, action \in PolicyActions,
          location \in PolicyLocations, resource_type \in ResourceTypes :
            req' = generate_policy_request(role, action, location,
                                           resource_type, None)
    /\ op' = "policy_validation"
    /\ UNCHANGED <<api, res>>

\* benchmark_policy_validation: result = call_policy_validation(request)
policy_validation_call ==
    /\ Called("policy_validation")
    /\ \E status \in ApiOutcomes, body \in BackendBodies :
        /\ api' = [status |-> status]
        /\ res' = call_policy_validation(req, status, body)
    /\ UNCHANGED <<op, req>>

\* benchmark_cross_jurisdiction (benchmark_policy.py): an iteration builds its
\* request.  The benchmark draws role and action from its four scenarios; the
\* fallback it calls takes any policy request and reads every field of
\* cross_jurisdiction with a default, so the other roles and actions, and a
\* cross_jurisdiction that carries no agreement_id, are drawn as well.
benchmark_cross_jurisdiction ==
    /\ Idle
    /\ \E scenario \in CrossScenarios, role \in PolicyRoles, action \in PolicyActions,
          resource_type \in ResourceTypes,
          agreement_id \in AgreementIds \cup {"absent"} :
        LET pair == [source_country |-> scenario.source,
                     target_country |-> scenario.target]
            cross == IF agreement_id = "absent" THEN pair
                     ELSE pair @@ [agreement_id |-> agreement_id]
        IN  req' = generate_policy_request(role, action, scenario.source,
                                           resource_type, cross)
    /\ op' = "cross_jurisdiction"
    /\ UNCHANGED <<api, res>>

\* benchmark_cross_jurisdiction: result = call_cross_jurisdiction_validation(request)
cross_jurisdiction_call ==
    /\ Called("cross_jurisdiction")
    /\ \E status \in ApiOutcomes, body \in BackendBodies, agreement_valid \in BOOLEAN :
        /\ api' = [status |-> status]
        /\ res' = call_cross_jurisdiction_validation(req, status, body, agreement_valid)
    /\ UNCHANGED <<op, req>>

\* benchmark_role_validation: an iteration builds its context
benchmark_role_validation ==
    /\ Idle
    /\ \E role \in RoleRoles, resource \in RoleResources, action \in RoleActions :
        req' = [role |-> role, resource |-> resource, action |-> action]
    /\ op' = "role_validation"
    /\ UNCHANGED <<api, res>>

\* benchmark_role_validation: result = call_role_validation(context)
role_validation_call ==
    /\ Called("role_validation")
    /\ \E status \in ApiOutcomes, body \in BackendBodies :
        /\ api' = [status |-> status]
        /\ res' = call_role_validation(req, status, body)
    /\ UNCHANGED <<op, req>>

\* benchmark_rbac_verification: an iteration builds its context
benchmark_rbac_verification ==
    /\ Idle
    /\ \E role \in RbacRoles, resource \in RbacResources, action \in RbacActions :
        req' = [role |-> role, resource |-> resource, action |-> action]
    /\ op' = "rbac_verification"
    /\ UNCHANGED <<api, res>>

\* benchmark_rbac_verification: rbac_result = call_rbac_verification(context)
rbac_verification_call ==
    /\ Called("rbac_verification")
    /\ \E status \in ApiOutcomes, body \in BackendBodies, random_denial \in BOOLEAN :
        /\ api' = [status |-> status]
        /\ res' = call_rbac_verification(req, status, body, random_denial)
    /\ UNCHANGED <<op, req>>

\* benchmark_validator_selection: an iteration builds its request.  The
\* benchmark draws from the twelve pairs it knows a validator for; the fallback
\* takes any request, so the other policy actions are drawn as well.
benchmark_validator_selection ==
    /\ Idle
    /\ \E action \in PolicyActions, location \in SelectionLocations :
        req' = [action |-> action, location |-> location]
    /\ op' = "validator_selection"
    /\ UNCHANGED <<api, res>>

\* benchmark_validator_selection: result = call_validator_selection(request)
validator_selection_call ==
    /\ Called("validator_selection")
    /\ \E status \in ApiOutcomes, body \in BackendBodies :
        /\ api' = [status |-> status]
        /\ res' = call_validator_selection(req, status, body)
    /\ UNCHANGED <<op, req>>

\* benchmark_policy_oracle_integration: an iteration builds its oracle request
\* (random.randint(2, 5) clause ids, here at most MaxClauses)
benchmark_policy_oracle_integration ==
    /\ Idle
    /\ \E role \in PolicyRoles, action \in PolicyActions,
          location \in PolicyLocations, resource_type \in ResourceTypes,
          agreement_id \in AgreementIds,
          clause_ids \in Lists(ClauseIds, 2, MaxClauses) :
        req' = [policy_request |->
                    generate_policy_request(role, action, location,
                                            resource_type, None),
                agreement_id |-> agreement_id,
                clause_ids |-> clause_ids]
    /\ op' = "policy_oracle_integration"
    /\ UNCHANGED <<api, res>>

\* benchmark_policy_oracle_integration:
\* result = call_policy_oracle_integration(oracle_request)
policy_oracle_integration_call ==
    /\ Called("policy_oracle_integration")
    /\ \E status \in ApiOutcomes, body \in BackendBodies,
          passes \in [DOMAIN req.clause_ids -> BOOLEAN] :
        /\ api' = [status |-> status]
        /\ res' = call_policy_oracle_integration(req, status, body, passes)
    /\ UNCHANGED <<op, req>>

\* benchmark_clause_validation: an iteration takes its ids and context
benchmark_clause_validation ==
    /\ Idle
    /\ \E agreement_id \in AgreementIds, clause_id \in ClauseIds,
          context \in OracleContexts :
        req' = [agreement_id |-> agreement_id, clause_id |-> clause_id,
                context |-> context]
    /\ op' = "clause_validation"
    /\ UNCHANGED <<api, res>>

\* a clause validation that also applies an Execute directive of the clause:
\* it notes log_access in the context it was given
clause_validation_applying_execute ==
    /\ Called("clause_validation")
    /\ \E passed \in BOOLEAN :
        res' = [valid |-> simulate_clause_validation(req.agreement_id,
                                                     req.clause_id,
                                                     req.context, passed)]
    /\ req' = [req EXCEPT !.context = [log_access |-> TRUE] @@ @]
    /\ UNCHANGED <<op, api>>

\* benchmark_clause_validation: valid = simulate_clause_validation(...)
clause_validation_call ==
    /\ Called("clause_validation")
    /\ \E passed \in BOOLEAN :
        res' = [valid |-> simulate_clause_validation(req.agreement_id,
                                                     req.clause_id,
                                                     req.context, passed)]
    /\ UNCHANGED <<op, req, api>>

\* benchmark_agreement_validation: an iteration builds its event
\* (random.randint(1, 5) clause ids, here at most MaxClauses)
benchmark_agreement_validation ==
    /\ Idle
    /\ \E agreement_id \in AgreementIds, context \in OracleContexts,
          clause_ids \in Lists(ClauseIds, 1, MaxClauses) :
        req' = [agreement_id |-> agreement_id,
                event |-> [context |-> context, clause_ids |-> clause_ids]]
    /\ op' = "agreement_validation"
    /\ UNCHANGED <<api, res>>

\* benchmark_agreement_validation: result = simulate_agreement_validation(...)
agreement_validation_call ==
    /\ Called("agreement_validation")
    /\ \E valid \in BOOLEAN, passes \in [DOMAIN req.event.clause_ids -> BOOLEAN] :
        res' = simulate_agreement_validation(req.agreement_id, req.event,
                                             valid, passes)
    /\ UNCHANGED <<op, req, api>>

\* benchmark_cross_jurisdiction (benchmark_oracle.py): an iteration builds its
\* scenario
oracle_benchmark_cross_jurisdiction ==
    /\ Idle
    /\ \E agreement_id \in AgreementIds,
          doctor \in OracleLocations, patient \in OracleLocations,
          data \in OracleLocations :
        req' = [agreement_id |-> agreement_id,
                scenario |-> [doctor_jurisdiction |-> doctor,
                              patient_jurisdiction |-> patient,
                              data_jurisdiction |-> data]]
    /\ op' = "oracle_cross_jurisdiction"
    /\ UNCHANGED <<api, res>>

\* benchmark_cross_jurisdiction (benchmark_oracle.py):
\* result = simulate_cross_jurisdiction_validation(agreement_id, scenario)
oracle_cross_jurisdiction_call ==
    /\ Called("oracle_cross_jurisdiction")
    /\ \E compliant \in BOOLEAN, passes \in [1..3 -> BOOLEAN] :
        res' = simulate_cross_jurisdiction_validation(req.agreement_id,
                                                      req.scenario,
                                                      compliant, passes)
    /\ UNCHANGED <<op, req, api>>

\* POST /policies/simulate arrives: the handler builds validation_request
simulate_validation_request ==
    /\ Idle
    /\ \E role \in PolicyRoles, action \in PolicyActions, country \in PolicyLocations,
          cross_jurisdiction \in {"", "US"} :
        LET validation_request ==
                [actor |-> [role |-> role, attributes |-> [country |-> country]],
                 action |-> action,
                 location |-> country,
                 resource |-> [type |-> "medical_record"]]
        IN  req' = IF cross_jurisdiction # ""
                   THEN validation_request
                        @@ [cross_jurisdiction |-> cross_jurisdiction]
                   ELSE validation_request
    /\ op' = "simulate_validation"
    /\ UNCHANGED <<api, res>>

\* POST /policies/simulate: the policy API answers and the handler returns
simulate_validation_respond ==
    /\ Called("simulate_validation")
    /\ \E policy_response \in ClientResponses(BackendBodies),
          oracle_response \in ClientResponses(OracleBodies) :
        /\ api' = [status |-> "answered", validate_action |-> policy_response]
        /\ res' = simulate_validation(req, policy_response, oracle_response)
    /\ UNCHANGED <<op, req>>

\* POST /treatments/create arrives: the handler builds oracle_validation_request
create_treatment_request ==
    /\ Idle
    /\ \E role \in PolicyRoles, country \in PolicyLocations :
        req' = [policy_request |->
                    [actor |-> [role |-> role, attributes |-> [country |-> country]],
                     action |-> "create_treatment",
                     location |-> country,
                     resource |-> [type |-> "treatment_plan"]],
                agreement_id |-> "treatment_agreement_" \o country,
                clause_ids |-> <<"treatment_authorization",
                                 "patient_consent_verification">>]
    /\ op' = "create_treatment"
    /\ UNCHANGED <<api, res>>

\* POST /treatments/create: the APIs answer and the handler returns
create_treatment_respond ==
    /\ Called("create_treatment")
    /\ \E policy_response \in ClientResponses(OracleBodies),
          consent_response \in ClientResponses(ConsentBodies),
          create_consent_response \in ClientResponses({[success |-> TRUE]}),
          treatment_response \in ClientResponses(TreatmentBodies) :
        /\ api' = [status |-> "answered",
                   validate_policy_with_oracle |-> policy_response,
                   verify_consent |-> consent_response]
        /\ res' = create_treatment(policy_response, consent_response,
                                   create_consent_response, treatment_response)
    /\ UNCHANGED <<op, req>>

\* POST /oracle/create arrives: the handler builds policy_request
create_agreement_request ==
    /\ Idle
    /\ \E role \in {"admin", "general_doctor"}, country \in PolicyLocations,
          clauses \in ClauseForms :
        req' = [policy_request |->
                    [actor |-> [role |-> role, attributes |-> [country |-> country]],
                     action |-> "create_oracle_agreement",
                     location |-> country,
                     resource |-> [type |-> "oracle_agreement"]],
                country |-> country,
                clauses |-> clauses]
    /\ op' = "create_agreement"
    /\ UNCHANGED <<api, res>>

\* POST /oracle/create: the policy API answers and the handler returns
create_agreement_respond ==
    /\ Called("create_agreement")
    /\ \E policy_response \in ClientResponses(BackendBodies) :
        /\ api' = [status |-> "answered", validate_action |-> policy_response]
        /\ res' = create_agreement(policy_response, req.country, req.clauses)
    /\ UNCHANGED <<op, req>>

\* validate_policies: one of its payloads is posted to
\* POLICY_VALIDATE_ENDPOINT; the engine's state at that moment is drawn
validate_policies_post ==
    /\ Idle
    /\ \E payload \in PolicyPayloads, grants \in ApiGrants, facts \in ApiFacts,
          clauses \in ApiClauses, agreement_registered \in BOOLEAN :
        req' = [payload |-> payload,
                grants |-> grants,
                facts |-> facts,
                clauses |-> clauses,
                agreement_registered |-> agreement_registered]
    /\ op' = "validate_policies"
    /\ UNCHANGED <<api, res>>

\* validate_policies: the endpoint answers (or fails) and the result is
\* recorded
validate_policies_record ==
    /\ Called("validate_policies")
    /\ \E status \in ApiOutcomes :
        LET validation == Validate(PayloadContext(req.payload, req.facts),
                                   req.grants, req.clauses,
                                   req.agreement_registered)
        IN  /\ api' = IF status = "200"
                      THEN [status |-> status, validation |-> validation]
                      ELSE [status |-> status]
            /\ res' = validate_policies_result(req.payload.test_name, status,
                                               validation)
    /\ UNCHANGED <<op, req>>

\* benchmark_regulatory_update: an iteration builds its update; the agreements
\* created earlier in the run are there, though no code keeps them
benchmark_regulatory_update ==
    /\ Idle
    /\ \E jurisdiction \in Jurisdictions, update_type \in UpdateTypes,
          agreements \in CreatedAgreements :
        req' = [update |-> [jurisdiction |-> jurisdiction,
                            update_type |-> update_type,
                            description |-> "Regulatory update for "
                                            \o jurisdiction],
                agreements |-> agreements]
    /\ op' = "regulatory_update"
    /\ UNCHANGED <<api, res>>

\* benchmark_regulatory_update:
\* affected_agreements = simulate_regulatory_update(update)
regulatory_update_call ==
    /\ Called("regulatory_update")
    /\ \E num_affected \in MinAffected..MaxAffected :
        res' = [affected_agreements |->
                    simulate_regulatory_update(req.update, num_affected, 0)]
    /\ UNCHANGED <<op, req, api>>

\* simulate_regulatory_update applied once more to the update it has just
\* been applied to: the same dict is passed, the first list is kept beside
\* the second
regulatory_update_reapply ==
    /\ op = "regulatory_update"
    /\ res # None
    /\ "first_affected_agreements" \notin DOMAIN res
    /\ \E num_affected \in MinAffected..MaxAffected :
        res' = [affected_agreements |->
                    simulate_regulatory_update(req.update, num_affected,
                        Len(res.affected_agreements)),
                first_affected_agreements |-> res.affected_agreements]
    /\ UNCHANGED <<op, req, api>>

\* POST /patients/register arrives: the handler builds policy_request
register_patient_request ==
    /\ Idle
    /\ \E role \in PolicyRoles, country \in PolicyLocations :
        req' = [policy_request |->
                    [actor |-> [role |-> role, attributes |-> [country |-> country]],
                     action |-> "register_patient",
                     location |-> country,
                     resource |-> [type |-> "patient_registration"]]]
    /\ op' = "register_patient"
    /\ UNCHANGED <<api, res>>

\* POST /patients/register: the APIs answer and the handler returns
register_patient_respond ==
    /\ Called("register_patient")
    /\ \E policy_response \in ClientResponses(BackendBodies),
          document_response \in ClientResponses(DocumentBodies),
          consent_response \in ClientResponses(CreateConsentBodies) :
        /\ api' = [status |-> "answered", validate_action |-> policy_response]
        /\ res' = register_patient(policy_response, document_response,
                                   consent_response)
    /\ UNCHANGED <<op, req>>

\* POST /treatments/{treatment_id}/update arrives: the handler builds
\* policy_request
update_treatment_request ==
    /\ Idle
    /\ \E role \in PolicyRoles, country \in PolicyLocations,
          treatment_id \in TreatmentIds :
        req' = [policy_request |->
                    [actor |-> [role |-> role, attributes |-> [country |-> country]],
                     action |-> "update_treatment",
                     location |-> country,
                     resource |-> [type |-> "treatment_vector",
                                   id |-> treatment_id]],
                treatment_id |-> treatment_id]
    /\ op' = "update_treatment"
    /\ UNCHANGED <<api, res>>

\* POST /treatments/{treatment_id}/update: the policy API answers and the
\* handler returns
update_treatment_respond ==
    /\ Called("update_treatment")
    /\ \E policy_response \in ClientResponses(BackendBodies) :
        /\ api' = [status |-> "answered", validate_action |-> policy_response]
        /\ res' = update_treatment(policy_response, req.treatment_id)
    /\ UNCHANGED <<op, req>>

\* GET /oracle/validate/{agreement_id} arrives: the handler builds
\* policy_request
validate_agreement_form_request ==
    /\ Idle
    /\ \E role \in PolicyRoles, country \in PolicyLocations,
          agreement_id \in AgreementIds :
        req' = [policy_request |->
                    [actor |-> [role |-> role, attributes |-> [country |-> country]],
                     action |-> "validate_oracle_agreement",
                     location |-> country,
                     resource |-> [type |-> "oracle_agreement",
                                   id |-> agreement_id]],
                agreement_id |-> agreement_id,
                country |-> country]
    /\ op' = "validate_agreement_form"
    /\ UNCHANGED <<api, res>>

\* GET /oracle/validate/{agreement_id}: the policy API answers and the
\* handler returns
validate_agreement_form_respond ==
    /\ Called("validate_agreement_form")
    /\ \E policy_response \in ClientResponses(BackendBodies) :
        /\ api' = [status |-> "answered", validate_action |-> policy_response]
        /\ res' = validate_agreement_form(policy_response, req.agreement_id,
                                          req.country)
    /\ UNCHANGED <<op, req>>

\* POST /oracle/validate/{agreement_id} arrives: the handler builds
\* validation_data
validate_agreement_request ==
    /\ Idle
    /\ \E role \in PolicyRoles, country \in PolicyLocations,
          agreement_id \in AgreementIds, action \in PolicyActions,
          resource_type \in ResourceTypes :
        req' = [agreement_id |-> agreement_id,
                actor |-> [role |-> role, attributes |-> [country |-> country]],
                action |-> action,
                resource |-> [type |-> resource_type],
                location |-> country]
    /\ op' = "validate_agreement"
    /\ UNCHANGED <<api, res>>

\* POST /oracle/validate/{agreement_id}: the handler returns; no API is
\* called
validate_agreement_respond ==
    /\ Called("validate_agreement")
    /\ res' = validate_agreement(req)
    /\ UNCHANGED <<op, req, api>>

\* POST /auth/token arrives with a login form
login_request ==
    /\ Idle
    /\ \E username \in {"user_1", "user_2"}, password \in Passwords :
        req' = [username |-> username, password |-> password]
    /\ op' = "login_for_access_token"
    /\ UNCHANGED <<api, res>>

\* POST /auth/token: the identity API answers, the password is checked, the
\* gateway answers and the handler returns
login_respond ==
    /\ Called("login_for_access_token")
    /\ \E user_response \in ClientResponses(IdentityBodies),
          unidentified_raises \in BOOLEAN,
          gateway_token_response \in ClientResponses(GatewayBodies) :
        /\ api' = [status |-> "answered", verify_identity |-> user_response,
                   unidentified_raises |-> unidentified_raises]
        /\ res' = login_for_access_token(user_response, req.password,
                                         unidentified_raises,
                                         gateway_token_response)
    /\ UNCHANGED <<op, req>>

\* a request arrives at the oracle or the treatments router
route_request ==
    /\ Idle
    /\ \E router \in DOMAIN Routers, method \in {"GET", "POST"},
          path \in Lists(PathSegments, 0, 2) :
        req' = [router |-> router, method |-> method, path |-> path]
    /\ op' = "dispatch"
    /\ UNCHANGED <<api, res>>

\* the router picks the handler
route_dispatch ==
    /\ Called("dispatch")
    /\ res' = dispatch(Routers[req.router], req.method, req.path)
    /\ UNCHANGED <<op, req, api>>

\* infrastructure_validation_test.py is started with a --test choice
validation_run_start ==
    /\ Idle
    /\ \E choice \in {"all"} \cup DOMAIN TestChoices :
        req' = [test |-> choice, health |-> "not_run", started |-> << >>,
                results |-> << >>]
    /\ op' = "infrastructure_validation"
    /\ UNCHANGED <<api, res>>

\* test_health_checking(): True when HEALTH_CHECK_URL answers, False on any
\* exception
test_health_checking ==
    /\ Called("infrastructure_validation")
    /\ req.health = "not_run"
    /\ \E healthy \in BOOLEAN :
        req' = [req EXCEPT !.health = IF healthy THEN "passed" ELSE "failed"]
    /\ UNCHANGED <<op, api, res>>

\* the next component test is run; run_all_tests records its result,
\* __main__ drops the value of a single test
run_component_test ==
    /\ Called("infrastructure_validation")
    /\ goes_on_after_health_check(req.health)
    /\ Len(req.started) < Len(selected_tests(req.test))
    /\ \E success \in BOOLEAN :
        LET test_name == selected_tests(req.test)[Len(req.started) + 1]
        IN  req' = [req EXCEPT
                        !.started = Append(@, test_name),
                        !.results = IF req.test = "all"
                                    THEN Append(@, [test |-> test_name,
                                                    success |-> success])
                                    ELSE @]
    /\ UNCHANGED <<op, api, res>>

\* the run ends: after a failed health check, or after the last test
validation_run_end ==
    /\ Called("infrastructure_validation")
    /\ \/ req.health = "failed"
       \/ /\ goes_on_after_health_check(req.health)
          /\ Len(req.started) = Len(selected_tests(req.test))
    /\ res' = [results |-> req.results]
    /\ UNCHANGED <<op, req, api>>

\* an agreement of the clause store is followed from before its creation;
\* one reader (Get, for a decision) runs beside its writes
clause_store_open ==
    /\ Idle
    /\ \E jurisdiction \in Jurisdictions :
        req' = [jurisdiction |-> jurisdiction, versions |-> <<>>,
                draft |-> None, reader |-> None]
    /\ op' = "clause_store"
    /\ UNCHANGED <<api, res>>

\* Create, or ApplyUpdate of an update for the jurisdiction, begins; writes
\* to one agreement are serialized: none begins while another is under way
store_write_clauses ==
    /\ Called("clause_store")
    /\ req.draft = None
    /\ Len(req.versions) < MaxVersions
    /\ IF req.versions = <<>>
       THEN req' = WriteClauses(req, CreatedClauses)
       ELSE /\ SelectVersion(req.versions) # 0
            /\ \E update_type \in UpdateTypes :
                LET clauses ==
                        req.versions[SelectVersion(req.versions)].clauses
                IN  /\ UpdatedClauses(clauses, update_type) # clauses
                    /\ req' = WriteClauses(req,
                                   UpdatedClauses(clauses, update_type))
    /\ UNCHANGED <<op, api, res>>

store_write_hash ==
    /\ Called("clause_store")
    /\ req.draft # None
    /\ "content_hash" \notin DOMAIN req.draft
    /\ req' = WriteHash(req)
    /\ UNCHANGED <<op, api, res>>

store_publish ==
    /\ Called("clause_store")
    /\ req.draft # None
    /\ "content_hash" \in DOMAIN req.draft
    /\ req' = Publish(req)
    /\ UNCHANGED <<op, api, res>>

\* Get for a new decision: the reader selects the version, NotFound when
\* there is none
store_select ==
    /\ Called("clause_store")
    /\ req.reader = None
    /\ IF SelectVersion(req.versions) = 0
       THEN /\ res' = [error |-> "NotFound"]
            /\ UNCHANGED req
       ELSE /\ req' = [req EXCEPT !.reader =
                            [version |-> SelectVersion(req.versions)]]
            /\ UNCHANGED res
    /\ UNCHANGED <<op, api>>

\* the reader reads the clauses of the version it selected
store_read_clauses ==
    /\ Called("clause_store")
    /\ req.reader # None
    /\ "clauses" \notin DOMAIN req.reader
    /\ req' = [req EXCEPT !.reader =
                    [version |-> @.version,
                     clauses |-> req.versions[@.version].clauses]]
    /\ UNCHANGED <<op, api, res>>

\* the reader reads the hash of the version it selected and has the agreement
store_read_hash ==
    /\ Called("clause_store")
    /\ req.reader # None
    /\ "clauses" \in DOMAIN req.reader
    /\ res' = [agreement_version |-> req.reader.version,
               clauses |-> req.reader.clauses,
               content_hash |->
                   req.versions[req.reader.version].content_hash]
    /\ UNCHANGED <<op, req, api>>

\* the end of an iteration or of a request: the result is handed over and
\* dropped, the loop (the server) is at its head
next_iteration ==
    /\ res # None
    /\ op' = "start"
    /\ req' = None
    /\ api' = [status |-> "none"]
    /\ res' = None

Next ==
    \/ benchmark_policy_validation
    \/ policy_validation_call
    \/ benchmark_cross_jurisdiction
    \/ cross_jurisdiction_call
    \/ benchmark_role_validation
    \/ role_validation_call
    \/ benchmark_rbac_verification
    \/ rbac_verification_call
    \/ benchmark_validator_selection
    \/ validator_selection_call
    \/ benchmark_policy_oracle_integration
    \/ policy_oracle_integration_call
    \/ benchmark_clause_validation
    \/ clause_validation_call
    \/ benchmark_agreement_validation
    \/ agreement_validation_call
    \/ oracle_benchmark_cross_jurisdiction
    \/ oracle_cross_jurisdiction_call
    \/ simulate_validation_request
    \/ simulate_validation_respond
    \/ create_treatment_request
    \/ create_treatment_respond
    \/ create_agreement_request
    \/ create_agreement_respond
    \/ benchmark_regulatory_update
    \/ regulatory_update_call
    \/ regulatory_update_reapply
    \/ validate_policies_post
    \/ validate_policies_record
    \/ register_patient_request
    \/ register_patient_respond
    \/ update_treatment_request
    \/ update_treatment_respond
    \/ validate_agreement_form_request
    \/ validate_agreement_form_respond
    \/ validate_agreement_request
    \/ validate_agreement_respond
    \/ login_request
    \/ login_respond
    \/ route_request
    \/ route_dispatch
    \/ validation_run_start
    \/ test_health_checking
    \/ run_component_test
    \/ validation_run_end
    \/ clause_store_open
    \/ store_write_clauses
    \/ store_write_hash
    \/ store_publish
    \/ store_select
    \/ store_read_clauses
    \/ store_read_hash
    \/ next_iteration

Spec == Init /\ [][Next]_vars
\* ===================================================================== claims
\* the operation `name` has returned from its fallback simulation
Returned(name) == op = name /\ res # None
Simulated(name) == Returned(name) /\ api.status # "200"

\* every value of a dict is true
AllTrue(d) == \A k \in DOMAIN d : d[k]

\* C1: if the role check denies, no clause is evaluated and the decision
\* carries no clause validations; the oracle is consulted only after the role
\* check has allowed the request.
C1_RbacShortCircuit ==
    /\ Simulated("policy_oracle_integration") /\ ~res.policy_result.allowed
        => /\ res.valid_clauses = << >>
           /\ res.invalid_clauses = << >>
           /\ DOMAIN res.validation_details = {}
    /\ Returned("simulate_validation") /\ res.status_code = 200
       /\ ~Get(res.content.policy_validation, "allowed", FALSE)
        => /\ res.content.oracle_validation = None
           /\ res.calls = <<"validate_action">>
    /\ Returned("create_treatment") /\ res.status_code = 403
       /\ res.detail = "Policy restriction"
        => "invalid_clauses" \notin DOMAIN res

\* C2: the overall verdict is allowed/valid exactly when the role check passed
\* and no referenced clause result is false.
C2_AllowedIffRbacAndClauses ==
    /\ Returned("agreement_validation")
        => (res.valid <=> AllTrue(res.clause_validations))
    /\ Simulated("policy_oracle_integration")
        => (res.oracle_validated <=> res.invalid_clauses = << >>)
    /\ Returned("create_treatment") /\ api.validate_policy_with_oracle # Raised
        => (Len(res.calls) > 1
            <=> /\ Get(Get(api.validate_policy_with_oracle, "policy_result", << >>),
                       "allowed", FALSE)
                /\ Get(api.validate_policy_with_oracle, "oracle_validated", FALSE))

\* C3: when the policy API is unreachable or answers with an error status,
\* validation yields allowed = false with a reason.
C3_FailClosedOnUnavailable ==
    Returned("policy_validation") /\ api.status \in {"error_status", "exception"}
        => ~res.allowed /\ res.reason # ""

\* the roles simulate_policy_validation_fallback has a rule for
PolicyRuleRoles == {"general_doctor", "specialist", "nurse", "researcher"}

\* C4: the role check is default-deny: allowed only if the role's table grants
\* the (resource, action) pair, exactly or through a wildcard; a role absent
\* from the table, or a pair it does not list, is denied.
C4_RbacDefaultDeny ==
    /\ Simulated("role_validation") /\ res.allowed
        => /\ req.role \in DOMAIN rbac_matrix
           /\ req.resource \in DOMAIN rbac_matrix[req.role]
           /\ req.action \in rbac_matrix[req.role][req.resource]
    /\ Simulated("rbac_verification") /\ res.allowed
        => /\ req.role \in DOMAIN permissions
           /\ \/ (req.resource \o ":" \o req.action) \in permissions[req.role]
              \/ (req.resource \o ":*") \in permissions[req.role]
    /\ Simulated("policy_validation") /\ res.allowed
        => req.actor_role \in PolicyRuleRoles

\* C5: a clause is valid exactly when every one of its preconditions holds
\* against the context (unless the emergency override applies), whichever
\* generated clause the clause id denotes.
C5_ClauseValidIffAllPreconditions ==
    Returned("clause_validation")
        => \A preconditions \in ClausePreconditions :
            ~EmergencyOverrideApplies(preconditions, req.context)
                => (res.valid <=>
                        \A k \in OrdinaryPreconditions(preconditions) :
                            PreconditionHolds(k, preconditions[k], req.context))

\* C6: a clause one of whose preconditions references an attribute the context
\* lacks is invalid.
C6_MissingAttributeInvalid ==
    Returned("clause_validation")
        => \A preconditions \in ClausePreconditions :
            (\E k \in DOMAIN preconditions :
                ReferencedAttribute(k) \notin DOMAIN req.context)
                => ~res.valid

\* C7: without an agreement between the two jurisdictions the result is not
\* compliant and says so; a missing agreement id never yields an allowed
\* result.
C7_NoAgreementNotCompliant ==
    Simulated("cross_jurisdiction")
        => /\ ~res.cross_jurisdiction.agreement_valid
                => /\ ~res.allowed
                   /\ res.reason = "No valid agreement between "
                                   \o res.cross_jurisdiction.source_country
                                   \o " and "
                                   \o res.cross_jurisdiction.target_country
           /\ "agreement_id" \notin DOMAIN req.cross_jurisdiction
                => ~res.allowed

\* C8: a failed cross-jurisdiction agreement check makes the decision denied,
\* and a decision the base policy check denied stays denied.
C8_CrossFailureOverrides ==
    Simulated("cross_jurisdiction")
        => /\ ~res.cross_jurisdiction.agreement_valid => ~res.allowed
           /\ ~simulate_policy_validation_fallback(req).allowed => ~res.allowed

\* C8 happens: the agreement check failed on a request the base check allowed,
\* and the decision is denied
C8_Witness ==
    /\ Simulated("cross_jurisdiction")
    /\ simulate_policy_validation_fallback(req).allowed
    /\ ~res.cross_jurisdiction.agreement_valid
    /\ ~res.allowed

\* C9: compliant is true exactly when every per-jurisdiction result is true.
C9_CompliantIsConjunction ==
    Returned("oracle_cross_jurisdiction")
        => (res.compliant <=> AllTrue(res.jurisdiction_results))

\* the clause ids of a clause list are pairwise distinct
DistinctClauseIds(clauses) ==
    \A i, j \in DOMAIN clauses : i # j => clauses[i].id # clauses[j].id

\* C11: creating an agreement whose clause list is empty or holds two clauses
\* with the same id fails and creates nothing: every agreement that is created
\* has a non-empty clause list with pairwise-distinct clause ids.
C11_CreateRejectsEmptyOrDuplicate ==
    Returned("create_agreement") /\ res.status_code = 303
        => /\ res.agreement_data.clauses # << >>
           /\ DistinctClauseIds(res.agreement_data.clauses)

\* a validator is registered for the (action, location) pair
Governed(action, location) ==
    location \in DOMAIN validator_mapping /\ action \in validates_for

\* C12: for an (action, location) pair no validator governs, resolution returns
\* no validator record, and validation denies with reason "no validator for
\* jurisdiction".
C12_NoValidatorDenies ==
    /\ Simulated("validator_selection") /\ ~Governed(req.action, req.location)
        => "validator_id" \notin DOMAIN res
    /\ Simulated("policy_validation") /\ ~Governed(req.action, req.location)
        => /\ ~res.allowed
           /\ res.reason = "no validator for jurisdiction"

\* the text `sub` occurs in the text `s`
Contains(s, sub) ==
    \E i \in 1..(Len(s) - Len(sub) + 1) : SubSeq(s, i, i + Len(sub) - 1) = sub

\* the first clause id, in reference order, whose result in `results` is false
FirstFailing(clause_ids, results) ==
    LET i == CHOOSE i \in DOMAIN clause_ids :
                /\ ~results[clause_ids[i]]
                /\ \A j \in DOMAIN clause_ids : ~results[clause_ids[j]] => i <= j
    IN  clause_ids[i]

DetailVerdicts(details) ==
    [clause_id \in DOMAIN details |->
        details[clause_id] = "Clause validated successfully"]

C15_EmergencyOverrideRecorded ==
    Returned("agreement_validation")
        => \A clause_id \in DOMAIN res.clause_validations,
              preconditions \in ClausePreconditions :
            /\ EmergencyOverrideApplies(preconditions, req.event.context)
                => /\ res.clause_validations[clause_id]
                   /\ "emergency override applied"
                        \in Range(Get(res, "validation_notes", << >>))
            /\ ~EmergencyOverrideApplies(preconditions, req.event.context)
               /\ res.clause_validations[clause_id]
                => \A k \in OrdinaryPreconditions(preconditions) :
                       PreconditionHolds(k, preconditions[k], req.event.context)

\* the clause at position i fails on its own preconditions: no override of its
\* own applies and one of its preconditions does not hold
ClauseFails(preconditions, ctx) ==
    /\ ~EmergencyOverrideApplies(preconditions, ctx)
    /\ \E k \in OrdinaryPreconditions(preconditions) :
           ~PreconditionHolds(k, preconditions[k], ctx)

\* the jurisdictions of the payload differ and no agreement is registered
CrossFails(request) ==
    /\ request.payload.requester.jurisdiction
           # request.payload.subject.jurisdiction
    /\ ~request.agreement_registered

ScenarioJurisdictions ==
    <<req.scenario.doctor_jurisdiction, req.scenario.patient_jurisdiction,
      req.scenario.data_jurisdiction>>

IsDenialReason(reason) ==
    \/ Contains(reason, "not allowed")
    \/ Contains(reason, "can only access")
    \/ Contains(reason, "No valid agreement")
    \/ reason = "denied"

\* a denied decision carries a reason that is neither empty, nor generic, nor
\* the success message; an allowed decision carries no denial reason
SpecificReason(decision) ==
    /\ ~decision.allowed
        => /\ "reason" \in DOMAIN decision
           /\ decision.reason \notin {"", "Unknown", "unknown error",
                                      "Policy validation passed"}
    /\ decision.allowed
        => ~IsDenialReason(Get(decision, "reason", ""))

\* the reason of a denied policy decision names its cause: the action and the
\* role, or the one thing a researcher may do
NamesRoleDenial(reason, request) ==
    \/ Contains(reason, request.action) /\ Contains(reason, request.actor_role)
    \/ /\ request.actor_role = "researcher"
       /\ reason = "Researchers can only access anonymized data"

\* the reason of a denied cross-jurisdiction decision names the two
\* jurisdictions no valid agreement joins
NamesMissingAgreement(reason, cross) ==
    /\ Contains(reason, "No valid agreement")
    /\ Contains(reason, cross.source_country)
    /\ Contains(reason, cross.target_country)

AgreementIn(name, result, status) ==
    /\ name = "create_agreement"
    /\ "agreement_data" \in DOMAIN result
    /\ result.agreement_data.status = status

\* C19: an agreement's status moves Draft -> Active -> Superseded -> Retired
\* without skipping a state: an agreement is Active in a state only if it was
\* Draft or already Active in the state before, and Retired only if it was
\* Superseded or already Retired.
C19_StatusLifecycle ==
    [][/\ AgreementIn(op', res', "Active")
            => \/ AgreementIn(op, res, "Draft")
               \/ AgreementIn(op, res, "Active")
       /\ AgreementIn(op', res', "Retired")
            => \/ AgreementIn(op, res, "Superseded")
               \/ AgreementIn(op, res, "Retired")]_vars

\* the ids of the agreements scoped to the jurisdiction of the update
ScopedTo(agreements, jurisdiction) ==
    {id \in DOMAIN agreements : agreements[id] = jurisdiction}

\* C20: a regulatory update of type addition or modification for a
\* jurisdiction returns as affected exactly the ids of the agreements scoped
\* to that jurisdiction, each of which got a new version.
C20_UpdateAffectsScopedAgreements ==
    Returned("regulatory_update")
    /\ req.update.update_type \in {"addition", "modification"}
        => Range(res.affected_agreements)
            = ScopedTo(req.agreements, req.update.jurisdiction)

\* simulate_regulatory_update has been applied a second time to one update
Reapplied ==
    /\ Returned("regulatory_update")
    /\ "first_affected_agreements" \in DOMAIN res

\* C21: re-applying a regulatory update identical to one already applied
\* returns no affected-agreement entry beyond those of the first application
\* and none twice, and gives no agreement a new version a second time.
C21_ReapplyAddsNoAffectedEntries ==
    Reapplied
        => /\ Range(res.affected_agreements)
                \subseteq Range(res.first_affected_agreements)
           /\ \A i, j \in DOMAIN res.affected_agreements :
                res.affected_agreements[i] = res.affected_agreements[j]
                    => i = j

\* the clause store is followed and has not been left
InStore(name, request) == name = "clause_store" /\ request # None

C23_NoTornRead ==
    /\ InStore(op, req) /\ req.reader # None
        /\ "clauses" \in DOMAIN req.reader
        => req.reader.clauses = req.versions[req.reader.version].clauses
    /\ Returned("clause_store") /\ "content_hash" \in DOMAIN res
        => /\ res.content_hash = ContentHash(res.clauses)
           /\ \E v \in DOMAIN req.versions :
                /\ req.versions[v].clauses = res.clauses
                /\ req.versions[v].content_hash = res.content_hash

\* a read of version 1 has ended after version 2 was published and while
\* the write of version 3 is under way
C23_Witness ==
    /\ Returned("clause_store")
    /\ "content_hash" \in DOMAIN res
    /\ res.agreement_version = 1
    /\ Len(req.versions) = 2
    /\ req.draft # None

\* the operations that evaluate a clause or validate a request
ValidationOps ==
    {"policy_validation", "cross_jurisdiction", "role_validation",
     "rbac_verification", "policy_oracle_integration", "clause_validation",
     "agreement_validation", "oracle_cross_jurisdiction"}

\* generate_random_clauses: the Execute directives of a clause
ExecuteDirectives == {"log_access", "notify_patient", "encrypt_data"}

\* C24: evaluating a clause or validating a request is side-effect-free: the
\* step that produces the result leaves the agreement, the clause and the
\* request context it was given as they were, and what it hands back is a
\* report only, with no Execute directive applied.
C24_ValidationIsSideEffectFree ==
    [][res = None /\ res' # None /\ op \in ValidationOps
        => /\ req' = req
           /\ op' = op
           /\ \A directive \in ExecuteDirectives :
                directive \notin DOMAIN res']_vars

\* a cross-jurisdiction validation has withdrawn a decision for want of a
\* valid agreement: the request it was given stands as it was built
C24_Witness ==
    /\ Simulated("cross_jurisdiction")
    /\ ~res.allowed
    /\ ~res.cross_jurisdiction.agreement_valid
    /\ "cross_jurisdiction" \in DOMAIN req
    /\ "allowed" \notin DOMAIN req

\* the policy response a handler of the three routers was given, and whether
\* it carries allowed = true (create_treatment reads it in policy_result)
GuardedHandlers ==
    {"create_agreement", "register_patient", "update_treatment",
     "create_treatment"}
PolicyResponse ==
    IF op = "create_treatment" THEN api.validate_policy_with_oracle
    ELSE api.validate_action
CarriesAllowed(policy_response) ==
    IF op = "create_treatment"
    THEN Get(Get(policy_response, "policy_result", << >>), "allowed", FALSE)
    ELSE Get(policy_response, "allowed", FALSE)

\* C25: in a policy-guarded handler of the oracle, patients and treatments
\* routers, a policy response that does not carry allowed = true (an HTTP
\* error status, turned into {success: false, error}, included) makes the
\* handler raise 403 with no response data built and no backend API called
\* besides the policy check.
C25_GuardBeforeAnythingElse ==
    op \in GuardedHandlers /\ res # None
    /\ PolicyResponse # Raised /\ ~CarriesAllowed(PolicyResponse)
        => /\ res.status_code = 403
           /\ DOMAIN res \subseteq {"status_code", "detail", "calls"}
           /\ "calls" \in DOMAIN res => Len(res.calls) = 1

\* register_patient was answered an HTTP error status by the policy API
C25_Witness ==
    /\ Returned("register_patient")
    /\ api.validate_action = [success |-> FALSE, error |-> "API Error"]
    /\ res.status_code = 403
    /\ res.calls = <<"validate_action">>

\* C26: create_treatment submits a treatment vector to the treatment API only
\* after consent verification for the (patient, provider) pair has returned
\* valid: with no valid consent, create_treatment_vector is not called.
C26_TreatmentOnlyWithValidConsent ==
    Returned("create_treatment")
    /\ "create_treatment_vector" \in Range(res.calls)
        => /\ api.verify_consent # Raised
           /\ Get(api.verify_consent, "valid", FALSE)

\* the handlers of the oracle router that answer with a result
OracleHandlers ==
    {"create_agreement", "validate_agreement_form", "validate_agreement"}

\* C27: every handler of the oracle router, the POST handler that validates
\* an agreement included, performs the policy check for the current user and
\* returns a result only when the policy response has allowed = true.
C27_OracleHandlersCheckPolicy ==
    op \in OracleHandlers /\ res # None /\ res.status_code \in {200, 303}
        => /\ "validate_action" \in DOMAIN api
           /\ api.validate_action # Raised
           /\ Get(api.validate_action, "allowed", FALSE)

\* identity verification reported success and the submitted password
\* verifies against the stored hash
LoginVerified ==
    /\ api.verify_identity # Raised
    /\ Get(api.verify_identity, "success", FALSE)
    /\ verify_password(req.password,
                       Get(Get(api.verify_identity, "data", << >>),
                           "password_hash", ""),
                       api.unidentified_raises) = [verified |-> TRUE]

\* the login answered with a token, or asked the gateway for one
TokenIssuedOrRequested ==
    \/ "access_token" \in DOMAIN res
    \/ "gateway_token" \in DOMAIN res
    \/ "create_access_token" \in Range(res.calls)
    \/ "generate_token" \in Range(res.calls)

C29_DeclaredRouteReachesItsHandler ==
    Returned("dispatch")
        => \A i \in DOMAIN Routers[req.router] :
            LET route == Routers[req.router][i]
            IN  route.method = req.method /\ route.path = req.path
                    => res.handler = route.handler

\* C30: in the infrastructure validation script no component test starts
\* unless the health check has run first and succeeded, when all tests are
\* run and when a single test is selected; after a failed health check the
\* run ends with no test started and no test result recorded.
C30_HealthCheckGatesTests ==
    op = "infrastructure_validation"
        => /\ req.started # << >> => req.health = "passed"
           /\ req.health = "failed"
                => /\ req.started = << >>
                   /\ req.results = << >>
                   /\ res # None => res.results = << >>

\* a run of all tests has ended after a failed health check
C30_Witness ==
    /\ Returned("infrastructure_validation")
    /\ req.health = "failed"
    /\ req.test = "all"

=============================================================================
